---- MODULE Spec2Model ----
(***************************************************************************)
(* State-machine model of the StudentDashboard screen                      *)
(* (05. Impl/ProjectX/app/student-dashboard.tsx).                          *)
(*                                                                         *)
(* The screen is a React function component: its state lives in useState   *)
(* cells, every handler runs to its next await on a single JS thread, and  *)
(* the setters called in one such run are committed together.  What the    *)
(* user can touch, the closures the handlers read and the callback bound   *)
(* to the camera are those of the last committed render, kept in `view`.   *)
(***************************************************************************)
EXTENDS Integers, Sequences, FiniteSets, TLC

\* ------------------------------------------------------------------ bounds
MaxScans == 2        \* decode events accepted by handleBarCodeScanned
MaxCourses == 3      \* length of the collection returned by getCourses

\* --------------------------------------------------------------- constants
NULL == "null"
PermGranted == "true"     \* hasPermission === true
PermDenied == "false"     \* hasPermission === false

currentUserId == "u1"
UserIds == {"u1", "u2"}

FetchCoursesErrorText == "Failed to fetch courses. Please try again."
NetworkFailedText == "Network request failed"
UnableToConnectText == "Unable to connect to the server. Please check your internet connection."
GenericFailureText == "Failed to record attendance"
AlertRequestingText == "Requesting camera permission..."
AlertNoAccessText == "No access to camera"
AlertCameraFailedText == "Failed to access camera"

\* texts produced by the platform, not by this file
TimedOutText == "Network request timed out"
JsonParseErrorText == "JSON Parse error: Unexpected end of input"
NullDerefText == "Cannot read property 'message' of null"
SessionExpiredText == "Session expired"
NoField == "<undefined>"  \* result.message when the body has no message

QrPayloads == {"TOKEN123", "TOKEN456"}

VARIABLES
    courses,            \* useState<Course[]>([])
    isLoading,          \* useState(true)
    error,              \* useState<string | null>(null)
    showLogoutConfirm,  \* useState(false)
    isScannerVisible,   \* useState(false)
    scanned,            \* useState(false)
    hasPermission,      \* useState<boolean | null>(null)
    showSuccessModal,   \* useState(false)
    showErrorModal,     \* useState(false)
    errorMessage,       \* useState('')
    view,               \* the last committed render of the cells above
    coursesPc,          \* fetchEnrolledCourses: "pending", "ok" or "failed"
    allCourses,         \* the collection getCourses resolved with
    permPc,             \* checkPermissions: "pending" or "done"
    reqs,               \* running handleBarCodeScanned invocations
    timers,             \* pending setTimeout callbacks of the success branch
    accepted,           \* decode events handled so far
    posted,             \* POST /attendance/scan requests issued so far
    settled,            \* what the fetch that settled last settled with
    lastAlert,          \* text of the last Alert.alert
    navigated           \* router.replace('/') has been called

vars == <<courses, isLoading, error, showLogoutConfirm, isScannerVisible,
          scanned, hasPermission, showSuccessModal, showErrorModal,
          errorMessage, view, coursesPc, allCourses, permPc, reqs, timers,
          accepted, posted, settled, lastAlert, navigated>>

cellVars == <<courses, isLoading, error, showLogoutConfirm, isScannerVisible,
              scanned, hasPermission, showSuccessModal, showErrorModal,
              errorMessage>>

\* ------------------------------------------------------------ course data
\* A Course as far as this screen reads it: its key and its students list,
\* which may be missing.
StudentLists == [present : {TRUE}, ids : SUBSET UserIds]
                    \cup {[present |-> FALSE, ids |-> {}]}

CourseAt(i) == [_id : {i}, students : StudentLists]

RECURSIVE CollectionsOfLen(_)
CollectionsOfLen(n) ==
    IF n = 0 THEN {<< >>}
    ELSE {Append(c, x) : c \in CollectionsOfLen(n - 1), x \in CourseAt(n)}

CourseCollections == UNION {CollectionsOfLen(n) : n \in 0..MaxCourses}

\* The rest of the screen reads the collection only through CardsShown, so
\* the scan flow is explored with one collection per outcome of the filter:
\* nothing fetched, a course of the current user, a course of someone else.
SampleCollections ==
    {<< >>} \cup {<<course>> : course \in
                    {c \in CourseAt(1) : /\ c.students.present
                                         /\ Cardinality(c.students.ids) = 1}}

\* the filter without the membership test
IsEnrolled_AnyList(course) == course.students.present

\* course.students && course.students.includes(currentUserId)
IsEnrolled(course) ==
    course.students.present /\ currentUserId \in course.students.ids

\* allCourses.filter(...)
EnrolledCourses(all) == SelectSeq(all, IsEnrolled)

\* ------------------------------------------------------------ rendering
\* The course cards (and their scan buttons) are rendered only in the last
\* branch of the isLoading / error / courses.length chain.
CardsShown == ~isLoading /\ error = NULL /\ Len(courses) > 0

CurrentView ==
    [cards |-> CardsShown,
     isScannerVisible |-> isScannerVisible,
     scanned |-> scanned,
     hasPermission |-> hasPermission,
     showSuccessModal |-> showSuccessModal,
     showErrorModal |-> showErrorModal,
     showLogoutConfirm |-> showLogoutConfirm]

\* a visible Modal takes the touches and the hardware back press
ModalOpen ==
    view.showSuccessModal \/ view.showErrorModal \/ view.showLogoutConfirm

Init ==
    /\ courses = << >>
    /\ isLoading = TRUE
    /\ error = NULL
    /\ showLogoutConfirm = FALSE
    /\ isScannerVisible = FALSE
    /\ scanned = FALSE
    /\ hasPermission = NULL
    /\ showSuccessModal = FALSE
    /\ showErrorModal = FALSE
    /\ errorMessage = ""
    /\ view = [cards |-> FALSE, isScannerVisible |-> FALSE, scanned |-> FALSE,
               hasPermission |-> NULL, showSuccessModal |-> FALSE,
               showErrorModal |-> FALSE, showLogoutConfirm |-> FALSE]
    /\ coursesPc = "pending"
    /\ allCourses = << >>
    /\ permPc = "pending"
    /\ reqs = << >>
    /\ timers = 0
    /\ accepted = 0
    /\ posted = 0
    /\ settled = [kind |-> "none", text |-> NULL, ok |-> FALSE,
                  body |-> [kind |-> "none", message |-> NoField]]
    /\ lastAlert = NULL
    /\ navigated = FALSE

\* React commits the pending state and re-renders.
Render ==
    /\ ~navigated
    /\ view # CurrentView
    /\ view' = CurrentView
    /\ UNCHANGED <<cellVars, coursesPc, allCourses, permPc, reqs, timers,
                   accepted, posted, settled, lastAlert, navigated>>

\* ------------------------------------------------- fetchEnrolledCourses
\* getCourses() resolves with the collection `all`.
FetchCoursesResolves(all) ==
    /\ coursesPc = "pending"
    /\ coursesPc' = "ok"
    /\ allCourses' = all
    /\ courses' = EnrolledCourses(all)
    /\ isLoading' = FALSE
    /\ UNCHANGED <<error, showLogoutConfirm, isScannerVisible, scanned,
                   hasPermission, showSuccessModal, showErrorModal,
                   errorMessage, view, permPc, reqs, timers, accepted,
                   posted, settled, lastAlert, navigated>>

\* the failure path without the finally block
FetchCoursesFails_NoFinally ==
    /\ coursesPc = "pending"
    /\ coursesPc' = "failed"
    /\ error' = FetchCoursesErrorText
    /\ UNCHANGED <<courses, isLoading, showLogoutConfirm, isScannerVisible,
                   scanned, hasPermission, showSuccessModal, showErrorModal,
                   errorMessage, view, allCourses, permPc, reqs, timers,
                   accepted, posted, settled, lastAlert, navigated>>

\* the failure path setting the attendance text instead of its own
FetchCoursesFails_OtherText ==
    /\ coursesPc = "pending"
    /\ coursesPc' = "failed"
    /\ error' = GenericFailureText
    /\ isLoading' = FALSE
    /\ UNCHANGED <<courses, showLogoutConfirm, isScannerVisible, scanned,
                   hasPermission, showSuccessModal, showErrorModal,
                   errorMessage, view, allCourses, permPc, reqs, timers,
                   accepted, posted, settled, lastAlert, navigated>>

\* getCourses() rejects, or what it resolved with cannot be filtered.
FetchCoursesFails ==
    /\ coursesPc = "pending"
    /\ coursesPc' = "failed"
    /\ error' = FetchCoursesErrorText
    /\ isLoading' = FALSE
    /\ UNCHANGED <<courses, showLogoutConfirm, isScannerVisible, scanned,
                   hasPermission, showSuccessModal, showErrorModal,
                   errorMessage, view, allCourses, permPc, reqs, timers,
                   accepted, posted, settled, lastAlert, navigated>>

LoaderNext ==
    \/ \E all \in CourseCollections : FetchCoursesResolves(all)
    \/ FetchCoursesFails
    \/ Render

SpecLoader == Init /\ [][LoaderNext]_vars

\* ----------------------------------------------------- checkPermissions
PermissionStatuses == {"granted", "denied", "undetermined"}

\* Camera.requestCameraPermissionsAsync() resolves with { status }.
PermissionResolves(status) ==
    /\ permPc = "pending"
    /\ permPc' = "done"
    /\ hasPermission' = IF status = "granted" THEN PermGranted ELSE PermDenied
    /\ UNCHANGED <<courses, isLoading, error, showLogoutConfirm,
                   isScannerVisible, scanned, showSuccessModal,
                   showErrorModal, errorMessage, view, coursesPc, allCourses,
                   reqs, timers, accepted, posted, settled, lastAlert, navigated>>

\* ... or rejects: the catch only alerts.
PermissionRejects ==
    /\ permPc = "pending"
    /\ permPc' = "done"
    /\ lastAlert' = AlertCameraFailedText
    /\ UNCHANGED <<cellVars, view, coursesPc, allCourses, reqs, timers,
                   accepted, posted, settled, navigated>>

\* handleScanPress without the `hasPermission === false` return
handleScanPress_NoDeniedReturn ==
    /\ ~navigated
    /\ view.cards /\ ~view.isScannerVisible /\ ~ModalOpen
    /\ IF view.hasPermission = NULL
         THEN /\ lastAlert' = AlertRequestingText
              /\ UNCHANGED isScannerVisible
         ELSE /\ isScannerVisible' = TRUE
              /\ UNCHANGED lastAlert
    /\ UNCHANGED <<courses, isLoading, error, showLogoutConfirm, scanned,
                   hasPermission, showSuccessModal, showErrorModal,
                   errorMessage, view, coursesPc, allCourses, permPc, reqs,
                   timers, accepted, posted, settled, navigated>>

\* ------------------------------------------------------ handleScanPress
\* The scan button of a course card; the handler reads hasPermission from
\* the render that created it.  The scanner overlay covers the cards.
handleScanPress ==
    /\ ~navigated
    /\ view.cards /\ ~view.isScannerVisible /\ ~ModalOpen
    /\ IF view.hasPermission = NULL
         THEN /\ lastAlert' = AlertRequestingText
              /\ UNCHANGED isScannerVisible
         ELSE IF view.hasPermission = PermDenied
                THEN /\ lastAlert' = AlertNoAccessText
                     /\ UNCHANGED isScannerVisible
                ELSE /\ isScannerVisible' = TRUE
                     /\ UNCHANGED lastAlert
    /\ UNCHANGED <<courses, isLoading, error, showLogoutConfirm, scanned,
                   hasPermission, showSuccessModal, showErrorModal,
                   errorMessage, view, coursesPc, allCourses, permPc, reqs,
                   timers, accepted, posted, settled, navigated>>

\* ------------------------------------------------- handleBarCodeScanned
\* An invocation of the handler: the payload it was called with, where it
\* is suspended ("beep": await playBeep(), "fetch": await fetch(...)), the
\* body it posted, whether it was started in the scanner session that is
\* still open, and whether it was started while the timer that fires
\* next (the oldest one, all timers having the same delay) was pending.
NoBody == [qrData |-> NULL, studentId |-> NULL]

NewRequest(data) ==
    [data |-> data, stage |-> "beep", body |-> NoBody,
     live |-> isScannerVisible, late |-> timers > 0]

RemoveAt(s, i) == SubSeq(s, 1, i - 1) \o SubSeq(s, i + 1, Len(s))

\* closing the scanner ends the session of every running invocation
EndSession(s) == [i \in DOMAIN s |-> [s[i] EXCEPT !.live = FALSE]]

\* the oldest timer has fired: the scanner is closed, and no running
\* invocation was started under the timer that is now the oldest
EndTimer(s) ==
    [i \in DOMAIN s |-> [s[i] EXCEPT !.live = FALSE, !.late = FALSE]]

\* The camera reports a code to the callback bound at the last render:
\* onBarcodeScanned={scanned ? undefined : handleBarCodeScanned}.  The
\* handler sets the latch and suspends in playBeep.
BarCodeScanned(data) ==
    /\ ~navigated
    /\ view.isScannerVisible /\ ~view.scanned
    /\ accepted < MaxScans
    /\ scanned' = TRUE
    /\ reqs' = Append(reqs, NewRequest(data))
    /\ accepted' = accepted + 1
    /\ UNCHANGED <<courses, isLoading, error, showLogoutConfirm,
                   isScannerVisible, hasPermission, showSuccessModal,
                   showErrorModal, errorMessage, view, coursesPc, allCourses,
                   permPc, timers, posted, settled, lastAlert, navigated>>

\* JSON.stringify({ qrData: data, studentId: currentUserId })
PostBody(data) == [qrData |-> data, studentId |-> currentUserId]

\* playBeep() settles (it catches its own failures) and the POST is sent.
BeepSettles(i) ==
    /\ i \in DOMAIN reqs
    /\ reqs[i].stage = "beep"
    /\ reqs' = [reqs EXCEPT ![i].stage = "fetch",
                            ![i].body = PostBody(reqs[i].data)]
    /\ posted' = posted + 1
    /\ UNCHANGED <<cellVars, view, coursesPc, allCourses, permPc, timers,
                   accepted, settled, lastAlert, navigated>>

\* What fetch can settle with: a rejection carrying an error text, or a
\* response with its status class and body.
RejectTexts == {NetworkFailedText, TimedOutText, ""}
ServerMessages == {SessionExpiredText, NetworkFailedText, "", NoField}
Bodies == [kind : {"notjson", "null"}, message : {NoField}]
              \cup [kind : {"object"}, message : ServerMessages]
Responses == [ok : BOOLEAN, body : Bodies]

Rejection(text) ==
    [kind |-> "rejected", text |-> text, ok |-> FALSE,
     body |-> [kind |-> "none", message |-> NoField]]

Response(resp) ==
    [kind |-> "response", text |-> NULL, ok |-> resp.ok, body |-> resp.body]

\* x || fallback, for a string or undefined x
OrElse(x, fallback) == IF x = "" \/ x = NoField THEN fallback ELSE x

\* The message of the error thrown between `await fetch` and the end of the
\* try block, NULL when nothing is thrown.
ThrownMessage(resp) ==
    IF resp.body.kind = "notjson" THEN JsonParseErrorText
    ELSE IF resp.ok THEN NULL
    ELSE IF resp.body.kind = "null" THEN NullDerefText
    ELSE OrElse(resp.body.message, GenericFailureText)

\* the argument of setErrorMessage in the catch block
DisplayedMessage_NoFallback(message) ==
    IF message = NetworkFailedText THEN UnableToConnectText
    ELSE message

DisplayedMessage(message) ==
    IF message = NetworkFailedText THEN UnableToConnectText
    ELSE OrElse(message, GenericFailureText)

\* a catch block that sends the request again
Catch_Resend(i, message) ==
    /\ errorMessage' = DisplayedMessage(message)
    /\ showErrorModal' = TRUE
    /\ scanned' = FALSE
    /\ posted' = posted + 1
    /\ UNCHANGED <<courses, isLoading, error, showLogoutConfirm,
                   isScannerVisible, hasPermission, showSuccessModal, view,
                   coursesPc, allCourses, permPc, reqs, timers, accepted,
                   lastAlert, navigated>>

\* a catch block without setScanned(false)
Catch_KeepsLatch(i, message) ==
    /\ errorMessage' = DisplayedMessage(message)
    /\ showErrorModal' = TRUE
    /\ reqs' = RemoveAt(reqs, i)
    /\ UNCHANGED <<courses, isLoading, error, showLogoutConfirm,
                   isScannerVisible, scanned, hasPermission,
                   showSuccessModal, view, coursesPc, allCourses, permPc,
                   timers, accepted, posted, lastAlert, navigated>>

\* a catch block that drops the failure once the scanner is closed
Catch_DropsWhenClosed(i, message) ==
    /\ reqs' = RemoveAt(reqs, i)
    /\ IF isScannerVisible
         THEN /\ errorMessage' = DisplayedMessage(message)
              /\ showErrorModal' = TRUE
              /\ scanned' = FALSE
         ELSE UNCHANGED <<errorMessage, showErrorModal, scanned>>
    /\ UNCHANGED <<courses, isLoading, error, showLogoutConfirm,
                   isScannerVisible, hasPermission, showSuccessModal, view,
                   coursesPc, allCourses, permPc, timers, accepted, posted,
                   lastAlert, navigated>>

\* the catch block of handleBarCodeScanned, ending invocation i
Catch(i, message) ==
    /\ errorMessage' = DisplayedMessage(message)
    /\ showErrorModal' = TRUE
    /\ scanned' = FALSE
    /\ reqs' = RemoveAt(reqs, i)
    /\ UNCHANGED <<courses, isLoading, error, showLogoutConfirm,
                   isScannerVisible, hasPermission, showSuccessModal, view,
                   coursesPc, allCourses, permPc, timers, accepted, posted,
                   lastAlert, navigated>>

\* a success branch that clears the latch at once
Succeed_ClearsLatch(i) ==
    /\ showSuccessModal' = TRUE
    /\ scanned' = FALSE
    /\ timers' = timers + 1
    /\ reqs' = RemoveAt(reqs, i)
    /\ UNCHANGED <<courses, isLoading, error, showLogoutConfirm,
                   isScannerVisible, hasPermission, showErrorModal,
                   errorMessage, view, coursesPc, allCourses, permPc,
                   accepted, posted, lastAlert, navigated>>

\* the statements after the !response.ok check, ending invocation i
Succeed(i) ==
    /\ showSuccessModal' = TRUE
    /\ timers' = timers + 1
    /\ reqs' = RemoveAt(reqs, i)
    /\ UNCHANGED <<courses, isLoading, error, showLogoutConfirm,
                   isScannerVisible, scanned, hasPermission, showErrorModal,
                   errorMessage, view, coursesPc, allCourses, permPc,
                   accepted, posted, lastAlert, navigated>>

\* fetch rejects with an error carrying `text`.
FetchRejects(i, text) ==
    /\ i \in DOMAIN reqs
    /\ reqs[i].stage = "fetch"
    /\ settled' = Rejection(text)
    /\ Catch(i, text)

\* fetch resolves with `resp`; response.json() and the status check follow
\* with no write to the screen's state in between.
FetchResponds(i, resp) ==
    /\ i \in DOMAIN reqs
    /\ reqs[i].stage = "fetch"
    /\ settled' = Response(resp)
    /\ IF ThrownMessage(resp) = NULL
         THEN Succeed(i)
         ELSE Catch(i, ThrownMessage(resp))

\* the timeout callback without setScanned(false)
TimerFires_KeepsLatch ==
    /\ timers > 0
    /\ timers' = timers - 1
    /\ showSuccessModal' = FALSE
    /\ isScannerVisible' = FALSE
    /\ reqs' = EndTimer(reqs)
    /\ UNCHANGED <<courses, isLoading, error, showLogoutConfirm, scanned,
                   hasPermission, showErrorModal, errorMessage, view,
                   coursesPc, allCourses, permPc, accepted, posted, settled,
                   lastAlert, navigated>>

\* the setTimeout callback of the success branch
TimerFires ==
    /\ timers > 0
    /\ timers' = timers - 1
    /\ showSuccessModal' = FALSE
    /\ isScannerVisible' = FALSE
    /\ scanned' = FALSE
    /\ reqs' = EndTimer(reqs)
    /\ UNCHANGED <<courses, isLoading, error, showLogoutConfirm,
                   hasPermission, showErrorModal, errorMessage, view,
                   coursesPc, allCourses, permPc, accepted, posted, settled,
                   lastAlert, navigated>>

\* the back arrow without setScanned(false)
CloseScanner_KeepsLatch ==
    /\ ~navigated
    /\ view.isScannerVisible /\ ~ModalOpen
    /\ isScannerVisible' = FALSE
    /\ reqs' = EndSession(reqs)
    /\ UNCHANGED <<courses, isLoading, error, showLogoutConfirm, scanned,
                   hasPermission, showSuccessModal, showErrorModal,
                   errorMessage, view, coursesPc, allCourses, permPc, timers,
                   accepted, posted, settled, lastAlert, navigated>>

\* ------------------------------------------------------ scanner buttons
\* the back arrow of the scanner header
CloseScanner ==
    /\ ~navigated
    /\ view.isScannerVisible /\ ~ModalOpen
    /\ isScannerVisible' = FALSE
    /\ scanned' = FALSE
    /\ reqs' = EndSession(reqs)
    /\ UNCHANGED <<courses, isLoading, error, showLogoutConfirm,
                   hasPermission, showSuccessModal, showErrorModal,
                   errorMessage, view, coursesPc, allCourses, permPc, timers,
                   accepted, posted, settled, lastAlert, navigated>>

\* the Scan Again button, rendered in the footer while scanned is true
ScanAgain ==
    /\ ~navigated
    /\ view.isScannerVisible /\ view.scanned /\ ~ModalOpen
    /\ scanned' = FALSE
    /\ UNCHANGED <<courses, isLoading, error, showLogoutConfirm,
                   isScannerVisible, hasPermission, showSuccessModal,
                   showErrorModal, errorMessage, view, coursesPc, allCourses,
                   permPc, reqs, timers, accepted, posted, settled, lastAlert,
                   navigated>>

\* --------------------------------------------------------------- modals
SuccessModalRequestClose ==
    /\ ~navigated
    /\ view.showSuccessModal
    /\ showSuccessModal' = FALSE
    /\ UNCHANGED <<courses, isLoading, error, showLogoutConfirm,
                   isScannerVisible, scanned, hasPermission, showErrorModal,
                   errorMessage, view, coursesPc, allCourses, permPc, reqs,
                   timers, accepted, posted, settled, lastAlert, navigated>>

\* the error modal closing the success modal instead of itself
ErrorModalClose_HidesSuccess ==
    /\ ~navigated
    /\ view.showErrorModal
    /\ showSuccessModal' = FALSE
    /\ UNCHANGED <<courses, isLoading, error, showLogoutConfirm,
                   isScannerVisible, scanned, hasPermission, showErrorModal,
                   errorMessage, view, coursesPc, allCourses, permPc, reqs,
                   timers, accepted, posted, settled, lastAlert, navigated>>

\* onRequestClose of the error modal, and its Try Again button
ErrorModalClose ==
    /\ ~navigated
    /\ view.showErrorModal
    /\ showErrorModal' = FALSE
    /\ UNCHANGED <<courses, isLoading, error, showLogoutConfirm,
                   isScannerVisible, scanned, hasPermission,
                   showSuccessModal, errorMessage, view, coursesPc,
                   allCourses, permPc, reqs, timers, accepted, posted, settled,
                   lastAlert, navigated>>

\* onRequestClose of the logout confirmation, and its Cancel button
LogoutModalClose ==
    /\ ~navigated
    /\ view.showLogoutConfirm
    /\ showLogoutConfirm' = FALSE
    /\ UNCHANGED <<courses, isLoading, error, isScannerVisible, scanned,
                   hasPermission, showSuccessModal, showErrorModal,
                   errorMessage, view, coursesPc, allCourses, permPc, reqs,
                   timers, accepted, posted, settled, lastAlert, navigated>>

\* a back press that leaves the screen instead of asking
HardwareBackPress_Navigates ==
    /\ ~navigated
    /\ ~ModalOpen
    /\ navigated' = TRUE
    /\ UNCHANGED <<cellVars, view, coursesPc, allCourses, permPc, reqs,
                   timers, accepted, posted, settled, lastAlert>>

\* the hardwareBackPress listener, reached when no Modal is open
HardwareBackPress ==
    /\ ~navigated
    /\ ~ModalOpen
    /\ showLogoutConfirm' = TRUE
    /\ UNCHANGED <<courses, isLoading, error, isScannerVisible, scanned,
                   hasPermission, showSuccessModal, showErrorModal,
                   errorMessage, view, coursesPc, allCourses, permPc, reqs,
                   timers, accepted, posted, settled, lastAlert, navigated>>

\* the logout button of the header, covered by the scanner overlay
handleLogout ==
    /\ ~navigated
    /\ ~view.isScannerVisible /\ ~ModalOpen
    /\ showLogoutConfirm' = TRUE
    /\ UNCHANGED <<courses, isLoading, error, isScannerVisible, scanned,
                   hasPermission, showSuccessModal, showErrorModal,
                   errorMessage, view, coursesPc, allCourses, permPc, reqs,
                   timers, accepted, posted, settled, lastAlert, navigated>>

\* the Logout button of the confirmation
handleConfirmLogout ==
    /\ ~navigated
    /\ view.showLogoutConfirm
    /\ navigated' = TRUE
    /\ UNCHANGED <<cellVars, view, coursesPc, allCourses, permPc, reqs,
                   timers, accepted, posted, settled, lastAlert>>

\* ------------------------------------------------------- specifications
Next ==
    \/ \E all \in SampleCollections : FetchCoursesResolves(all)
    \/ FetchCoursesFails
    \/ \E status \in PermissionStatuses : PermissionResolves(status)
    \/ PermissionRejects
    \/ Render
    \/ handleScanPress
    \/ \E data \in QrPayloads : BarCodeScanned(data)
    \/ \E i \in 1..MaxScans : BeepSettles(i)
    \/ \E i \in 1..MaxScans, message \in RejectTexts : FetchRejects(i, message)
    \/ \E i \in 1..MaxScans, resp \in Responses : FetchResponds(i, resp)
    \/ TimerFires
    \/ CloseScanner
    \/ ScanAgain
    \/ SuccessModalRequestClose
    \/ ErrorModalClose
    \/ LogoutModalClose
    \/ HardwareBackPress
    \/ handleLogout
    \/ handleConfirmLogout

Spec == Init /\ [][Next]_vars

\* the timer started by the success branch fires once it is due
FairSpec == Spec /\ WF_vars(TimerFires)

\* ================================================================ claims

\* C1: in every reachable state at most one POST /attendance/scan is in
\* flight among the invocations started in the scanner session that is open.
C1_OneSubmissionInFlight ==
    Cardinality({i \in DOMAIN reqs :
                    reqs[i].stage = "fetch" /\ reqs[i].live}) <= 1

\* C2: once fetchEnrolledCourses has succeeded, the displayed list is the
\* subsequence of the fetched collection whose students list exists and
\* contains the current user, in the collection's order.
C2_DisplayedIsEnrolledSubsequence ==
    LET member == {i \in 1..Len(allCourses) :
                      /\ allCourses[i].students.present
                      /\ currentUserId \in allCourses[i].students.ids}
        nth(k) == CHOOSE i \in member :
                      Cardinality({j \in member : j < i}) = k - 1
    IN  coursesPc = "ok" =>
            /\ Len(courses) = Cardinality(member)
            /\ \A k \in 1..Len(courses) : courses[k] = allCourses[nth(k)]

\* a three-course collection of which a proper, non-empty part is shown and
\* one course has no students list
C2_Witness ==
    /\ coursesPc = "ok"
    /\ Len(allCourses) = 3
    /\ Len(courses) \in {1, 2}
    /\ \E i \in 1..Len(allCourses) : ~allCourses[i].students.present
    /\ courses[1] # allCourses[1]

\* C3: a press of the scan button leaves the scanner closed while the
\* permission is unknown or denied and opens it when the handler reads
\* granted; the scanner is never visible without the permission granted.
C3_ScannerGatedByPermission ==
    /\ [][handleScanPress =>
            /\ hasPermission \in {NULL, PermDenied}
                  => isScannerVisible' = isScannerVisible
            /\ view.hasPermission = PermGranted => isScannerVisible']_vars
    /\ [](isScannerVisible => hasPermission = PermGranted)

\* the scanner has been opened by a press
C3_Witness == isScannerVisible /\ ~view.isScannerVisible /\ accepted = 0

\* C4: the step that starts the success timer shows the success dialog; the
\* step in which a timer fires leaves the success dialog hidden, the scanner
\* closed and the latch clear; and a started timer leads to that state.
C4_SuccessThenAutoClose ==
    /\ [][/\ timers' = timers + 1 => showSuccessModal'
          /\ timers' = timers - 1 =>
                ~showSuccessModal' /\ ~isScannerVisible' /\ ~scanned']_vars
    /\ (timers > 0) ~> (~showSuccessModal /\ ~isScannerVisible /\ ~scanned)

\* one scan, answered with success, whose timer has fired
C4_Witness ==
    /\ accepted = 1 /\ posted = 1 /\ reqs = << >> /\ timers = 0
    /\ errorMessage = ""
    /\ ~showSuccessModal /\ ~isScannerVisible /\ ~scanned
    /\ settled.kind = "response" /\ settled.ok

\* C5 as stated: while a success timer is pending, no step other than a
\* timer firing hides the success dialog or closes the scanner.
C5_NothingBeforeTimer ==
    [][(timers > 0 /\ timers' >= timers) =>
          /\ showSuccessModal => showSuccessModal'
          /\ isScannerVisible => isScannerVisible']_vars

\* C5 amended: while a success timer is pending, the success dialog is
\* hidden early only by its own request-close and the scanner is closed
\* early only by the close button.
C5_OnlyRequestCloseOrCloseButton ==
    [][(timers > 0 /\ timers' >= timers) =>
          /\ (showSuccessModal /\ ~showSuccessModal')
                => SuccessModalRequestClose
          /\ (isScannerVisible /\ ~isScannerVisible') => CloseScanner]_vars

\* the dialog dismissed and the scanner closed with the only timer pending
C5_Witness ==
    /\ accepted = 1 /\ timers = 1
    /\ ~showSuccessModal /\ ~isScannerVisible

\* C6: a response with a 2xx status shows the success dialog and leaves the
\* error dialog and its message as they were, whatever its body.
C6_Every2xxSucceeds ==
    [][(Len(reqs') < Len(reqs) /\ settled'.kind = "response" /\ settled'.ok)
          => /\ showSuccessModal'
             /\ showErrorModal' = showErrorModal
             /\ errorMessage' = errorMessage]_vars

\* C7: when fetch rejects with a network error, the message displayed is
\* the fixed connection text, whatever the error's own text.
C7_NetworkErrorShowsFixedText ==
    [][(/\ Len(reqs') < Len(reqs)
        /\ settled'.kind = "rejected"
        /\ settled'.text \in {NetworkFailedText, TimedOutText})
          => errorMessage' = UnableToConnectText]_vars

\* C8: when the server answers non-2xx with a JSON object, the message
\* displayed is the object's message if it has a non-empty one, and the
\* generic text otherwise.
C8_ServerMessagePassedThrough ==
    [][(/\ Len(reqs') < Len(reqs)
        /\ settled'.kind = "response" /\ ~settled'.ok
        /\ settled'.body.kind = "object")
          => errorMessage' = IF settled'.body.message \in {"", NoField}
                               THEN GenericFailureText
                               ELSE settled'.body.message]_vars

\* C9: every accepted decode event has either not yet passed playBeep or
\* has issued exactly one POST, whose body is its payload with the current
\* user id; the POSTs never outnumber the accepted decode events.
C9_OnePostPerDecode ==
    /\ posted <= accepted
    /\ accepted = posted + Cardinality({i \in DOMAIN reqs :
                                           reqs[i].stage = "beep"})
    /\ \A i \in DOMAIN reqs :
          /\ reqs[i].data \in QrPayloads
          /\ reqs[i].stage = "fetch" =>
                reqs[i].body = [qrData |-> reqs[i].data,
                                studentId |-> "u1"]

\* two decode events of different payloads, the first posted and failed,
\* the second posted and in flight
C9_Witness ==
    /\ accepted = 2 /\ posted = 2
    /\ showErrorModal
    /\ Len(reqs) = 1
    /\ reqs[1].body.qrData = "TOKEN456"

\* C10: the step in which a submission fails (an invocation ends without
\* starting the success timer) shows the error dialog with the message of
\* that failure, clears the latch and leaves the scanner's visibility as it
\* was.
C10_FailureShowsErrorAndUnlatches ==
    [][(Len(reqs') < Len(reqs) /\ timers' = timers) =>
          /\ showErrorModal' /\ ~scanned'
          /\ isScannerVisible' = isScannerVisible
          /\ errorMessage' # ""
          /\ settled'.kind = "rejected" =>
                errorMessage' =
                    IF settled'.text = NetworkFailedText
                      THEN UnableToConnectText
                      ELSE IF settled'.text = "" THEN GenericFailureText
                      ELSE settled'.text
          /\ (settled'.kind = "response" /\ settled'.ok) =>
                errorMessage' = JsonParseErrorText
          /\ (/\ settled'.kind = "response" /\ ~settled'.ok
              /\ settled'.body.message = SessionExpiredText) =>
                errorMessage' = SessionExpiredText]_vars

\* after a failure in the open scanner a second code has been accepted
C10_Witness ==
    /\ accepted = 2 /\ posted = 1 /\ timers = 0
    /\ showErrorModal /\ errorMessage # ""
    /\ isScannerVisible /\ scanned
    /\ Len(reqs) = 1 /\ reqs[1].stage = "beep" /\ reqs[1].live

\* C11: in every reachable state at most one of the success, error and
\* logout-confirm dialogs is visible.
C11_OneDialogAtATime ==
    Cardinality({d \in {"success", "error", "logout"} :
                    \/ d = "success" /\ showSuccessModal
                    \/ d = "error" /\ showErrorModal
                    \/ d = "logout" /\ showLogoutConfirm}) <= 1

\* C12: a press of the scanner's back arrow leaves the scanner hidden and
\* the latch clear and changes no other cell of the screen (dialogs, error
\* message, course list, loading state, permission).
C12_CloseOnlyClosesAndUnlatches ==
    [][CloseScanner =>
          /\ ~isScannerVisible' /\ ~scanned'
          /\ showSuccessModal' = showSuccessModal
          /\ showErrorModal' = showErrorModal
          /\ showLogoutConfirm' = showLogoutConfirm
          /\ errorMessage' = errorMessage
          /\ courses' = courses /\ isLoading' = isLoading /\ error' = error
          /\ hasPermission' = hasPermission
          /\ timers' = timers /\ navigated' = navigated]_vars

\* the scanner closed by its back arrow while the only POST is in flight
C12_Witness ==
    /\ ~isScannerVisible /\ ~scanned
    /\ timers = 0 /\ settled.kind = "none"
    /\ Len(reqs) = 1 /\ reqs[1].stage = "fetch" /\ ~reqs[1].live

\* C13: the loading flag is true exactly while the course fetch is pending:
\* from mount until the fetch settles, and never after, on success and on
\* failure alike.
C13_LoadingUntilFetchSettles ==
    /\ isLoading <=> coursesPc = "pending"
    /\ coursesPc \in {"pending", "ok", "failed"}

\* the fetch has failed and the loading flag is down
C13_Witness == coursesPc = "failed" /\ ~isLoading

\* C14: after a failed course fetch the error message is the fixed text and
\* the course list is still empty, and no step changes an error message
\* once it is set.
C14_FetchErrorIsFixedAndStays ==
    /\ [](coursesPc = "failed" =>
            /\ error = "Failed to fetch courses. Please try again."
            /\ courses = << >>)
    /\ [](coursesPc # "failed" => error = NULL)
    /\ [][error # NULL => error' = error]_vars

\* the failure message on a screen the user has gone on using
C14_Witness ==
    /\ coursesPc = "failed" /\ error # NULL
    /\ view.showLogoutConfirm /\ permPc = "done"

\* C15: once the permission request has settled, the permission state is
\* granted or denied, never unknown.
C15_KnownOnceSettled ==
    permPc = "done" => hasPermission \in {PermGranted, PermDenied}

\* C16: the POST does not wait for the sound: every decode event that has
\* been handled has had its POST dispatched, whether or not playBeep has
\* settled.
C16_PostDoesNotWaitForSound ==
    /\ accepted = posted
    /\ \A i \in DOMAIN reqs : reqs[i].stage # "beep"

\* C17: the screen is left only by a press of the confirmation's Logout
\* button while the confirmation is shown; a back press and a logout press
\* set the confirmation flag and do not navigate; cancelling clears the flag
\* and does not navigate.
C17_NavigationOnlyByConfirmedLogout ==
    [][/\ (~navigated /\ navigated') =>
              /\ view.showLogoutConfirm
              /\ showLogoutConfirm' = showLogoutConfirm
       /\ (HardwareBackPress \/ handleLogout) =>
              showLogoutConfirm' /\ navigated' = navigated
       /\ LogoutModalClose =>
              ~showLogoutConfirm' /\ navigated' = navigated
       /\ navigated => navigated']_vars

\* the logout has been confirmed
C17_Witness == navigated /\ view.showLogoutConfirm

\* C18: while the latch is set no decode event starts a handler invocation,
\* also before the render that unbinds the camera callback.
C18_LatchBlocksSecondDecode ==
    [][scanned => accepted' = accepted]_vars

\* C19: a submission that settles after the scanner was closed is applied
\* as any other: a 2xx with a JSON body shows the success dialog and starts
\* the timer, anything else shows the error dialog with a message and clears
\* the latch.
C19_SettlementAppliedAfterClose ==
    [][(Len(reqs') < Len(reqs) /\ ~isScannerVisible) =>
          IF /\ settled'.kind = "response" /\ settled'.ok
             /\ settled'.body.kind # "notjson"
            THEN showSuccessModal' /\ timers' = timers + 1
            ELSE /\ showErrorModal' /\ ~scanned'
                 /\ errorMessage' # ""
                 /\ timers' = timers]_vars

\* the error of a rejected POST on a screen whose last render already
\* showed the scanner closed
C19_Witness ==
    /\ accepted = 1 /\ settled.kind = "rejected"
    /\ showErrorModal /\ ~view.showErrorModal
    /\ ~isScannerVisible /\ ~view.isScannerVisible

\* C20 as stated: the latch goes from true to false only in a Scan Again
\* press or a firing of the success timer.
C20_OnlyRetryOrTimeoutUnlatch ==
    [][(scanned /\ ~scanned') => (ScanAgain \/ TimerFires)]_vars

\* C20 amended: the latch goes from true to false only in a Scan Again
\* press, a firing of the success timer, a press of the scanner's back
\* arrow, or the catch block of a failed submission.
C20_UnlatchedOnlyByFourEvents ==
    [][(scanned /\ ~scanned') =>
          \/ ScanAgain
          \/ TimerFires
          \/ CloseScanner
          \/ \E i \in 1..MaxScans :
                \/ \E text \in RejectTexts : FetchRejects(i, text)
                \/ \E resp \in Responses :
                      ThrownMessage(resp) # NULL /\ FetchResponds(i, resp)]_vars

\* the latch cleared by a failure: the last render still shows it set
C20_Witness ==
    /\ accepted = 1 /\ reqs = << >> /\ timers = 0
    /\ ~scanned /\ view.scanned
    /\ showErrorModal /\ isScannerVisible

\* C21: in every reachable state the latch being set implies that the
\* scanner is visible.
C21_LatchedImpliesScannerVisible == scanned => isScannerVisible

\* C22: when the success timer fires while a submission started after that
\* success is still in flight, it neither closes the scanner nor clears the
\* latch.
C22_TimerSparesLaterSubmission ==
    [][(/\ timers' = timers - 1
        /\ \E i \in DOMAIN reqs : reqs[i].late /\ reqs[i].stage = "fetch")
          => /\ isScannerVisible' = isScannerVisible
             /\ scanned' = scanned]_vars

\* C23: in every reachable state a visible error dialog has a non-empty
\* message, and a failure whose error carries no text leaves the message
\* 'Failed to record attendance'.
C23_ErrorDialogHasMessage ==
    /\ showErrorModal => errorMessage # ""
    /\ (settled.kind = "rejected" /\ settled.text = "")
          => errorMessage = GenericFailureText

C23_Witness ==
    /\ showErrorModal /\ view.showErrorModal
    /\ settled.kind = "rejected" /\ settled.text = ""
    /\ errorMessage = GenericFailureText
====
